---------------------------- MODULE Spec2Model ----------------------------
(***************************************************************************)
(* TelemetryComparator of src/analysis/comparison.py: lap selection,       *)
(* telemetry retrieval, resampling of both drivers onto a common distance  *)
(* vector, the time delta, the summary statistics and the fill             *)
(* classification of plot_comparison.                                      *)
(*                                                                         *)
(* Numbers are exact rationals <<n, d>> (d > 0, lowest terms).  Durations  *)
(* of laps are whole milliseconds; a missing value (None, NaT, NaN) is the *)
(* empty tuple <<>> and a present value v is the one-element tuple <<v>>.  *)
(***************************************************************************)
EXTENDS Integers, Sequences, FiniteSets, TLC

VARIABLES session,         \* self.session.laps: the set of lap records
          lap_number,      \* self.lap_number: <<>> (None) or <<n>>
          telemetry_data,  \* self.telemetry_data: dict code -> aligned series
          delta_data,      \* self.delta_data: <<>> (None) or <<array>>
          laps,            \* self.laps: dict code -> <<lap>> or <<>> (None)
          ret,             \* outcome of the last call: error raised / value returned
          op,              \* the last operation performed on the instance
          requested,       \* sequence of get_car_data() calls issued by the last process()
          fill             \* where-masks handed to fill_between by the last plot

vars == <<session, lap_number, telemetry_data, delta_data,
          laps, ret, op, requested, fill>>

---------------------------------------------------------------------------
(* Optional values. *)
None == <<>>
Some(v) == <<v>>
IsNone(o) == Len(o) = 0
IsSome(o) == Len(o) = 1
Get(o) == o[1]

---------------------------------------------------------------------------
(* Exact rational arithmetic standing for the float arithmetic of numpy. *)
Abs(x) == IF x < 0 THEN -x ELSE x

RECURSIVE GCD(_, _)
GCD(a, b) == IF b = 0 THEN a ELSE GCD(b, a % b)

R(n, d) ==
    IF d = 1 THEN <<n, 1>>
    ELSE LET s == IF d < 0 THEN -1 ELSE 1
             g == GCD(Abs(n), Abs(d))
         IN  <<(s * n) \div g, (s * d) \div g>>

I(n) == <<n, 1>>
LCM(a, b) == (a \div GCD(a, b)) * b
(* A sum with a whole number is in lowest terms as it stands. *)
RAdd(a, b) ==
    IF b[2] = 1 THEN <<a[1] + b[1] * a[2], a[2]>>
    ELSE IF a[2] = 1 THEN <<b[1] + a[1] * b[2], b[2]>>
    ELSE LET l == LCM(a[2], b[2])
         IN  R(a[1] * (l \div a[2]) + b[1] * (l \div b[2]), l)
RNeg(a) == <<-a[1], a[2]>>
RSub(a, b) == RAdd(a, RNeg(b))
RMul(a, b) == R(a[1] * b[1], a[2] * b[2])
RDiv(a, b) == R(a[1] * b[2], a[2] * b[1])
RLt(a, b) == a[1] * b[2] < b[1] * a[2]
RLe(a, b) == a[1] * b[2] <= b[1] * a[2]

(* int(x): truncation towards zero. *)
Trunc(x) == IF x[1] >= 0 THEN x[1] \div x[2] ELSE -((-x[1]) \div x[2])

(* Python's min(a, b): a unless b < a. *)
Min(a, b) == IF RLt(b, a) THEN b ELSE a

---------------------------------------------------------------------------
(* numpy primitives used by process() and _generate_statistics(). *)

(* np.linspace(0, stop, num): num evenly spaced points, the last one stop *)
(* itself when num > 1, the single point 0 when num = 1, none when num = 0. *)
Linspace(stop, num) ==
    IF num = 1
    THEN <<I(0)>>
    ELSE [i \in 1..num |-> RDiv(RMul(I(i - 1), stop), I(num - 1))]

(* Mutant of Interp1: the value of the sample to the left, no slope. *)
Interp1Step(x, xp, fp) ==
    LET n == Len(xp)
    IN  IF RLt(x, xp[1]) THEN fp[1]
        ELSE IF RLe(xp[n], x) THEN fp[n]
        ELSE fp[CHOOSE k \in 1..(n - 1) : RLe(xp[k], x) /\ RLt(x, xp[k + 1])]

(* np.interp(x, xp, fp) at one point x: piecewise linear inside the range  *)
(* of xp, the first / last value of fp outside it.                         *)
Interp1(x, xp, fp) ==
    LET n == Len(xp)
    IN  IF RLt(x, xp[1]) THEN fp[1]
        ELSE IF RLe(xp[n], x) THEN fp[n]
        ELSE LET j == CHOOSE k \in 1..(n - 1) :
                          RLe(xp[k], x) /\ RLt(x, xp[k + 1])
                 slope == RDiv(RSub(fp[j + 1], fp[j]), RSub(xp[j + 1], xp[j]))
             IN  IF xp[j] = x THEN fp[j]
                 ELSE RAdd(RMul(slope, RSub(x, xp[j])), fp[j])

(* np.interp over an array of points. *)
Interp(xs, xp, fp) == [i \in 1..Len(xs) |-> Interp1(xs[i], xp, fp)]

RECURSIVE MaxIn(_, _, _)
MaxIn(a, lo, hi) ==
    IF lo = hi THEN a[lo]
    ELSE LET mid == (lo + hi) \div 2
             l == MaxIn(a, lo, mid)
             r == MaxIn(a, mid + 1, hi)
         IN  IF RLt(l, r) THEN r ELSE l

(* Series.max() / np.max of a non-empty array. *)
Max(a) == MaxIn(a, 1, Len(a))

RECURSIVE SumIn(_, _, _)
SumIn(a, lo, hi) ==
    IF lo = hi THEN a[lo]
    ELSE LET mid == (lo + hi) \div 2
         IN  RAdd(SumIn(a, lo, mid), SumIn(a, mid + 1, hi))

(* np.mean of a non-empty array. *)
Mean(a) == RDiv(SumIn(a, 1, Len(a)), I(Len(a)))

---------------------------------------------------------------------------
(* The data provider: telemetry series and lap records of the session.     *)
(* A sample is one row of lap.get_car_data().add_distance().               *)

Sample(dist, time, speed, throttle, brake, gear) ==
    [Distance |-> dist, Time |-> time, Speed |-> I(speed),
     Throttle |-> I(throttle), Brake |-> I(brake), nGear |-> I(gear)]

(* The two driver codes handed to the constructor. *)
d1_code == "A"
d2_code == "B"

TelemetryCatalog ==
    [Five  |-> << Sample(I(0), I(0),     100,   0, 1, 1),
                  Sample(I(2), R(1, 5),  200, 100, 0, 4),
                  Sample(I(5), R(1, 2),  300, 100, 0, 7) >>,
     Six   |-> << Sample(I(0), I(0),      90,  50, 0, 2),
                  Sample(I(3), R(7, 20), 210, 100, 0, 5),
                  Sample(I(6), R(11, 20), 310, 100, 1, 8) >>,
     ScenA |-> << Sample(I(0),   I(0),  100,   0, 1, 1),
                  Sample(I(50),  I(5),  200, 100, 0, 4),
                  Sample(I(100), I(10), 300, 100, 0, 7) >>,
     ScenB |-> << Sample(I(0),   I(0),   90,  50, 0, 2),
                  Sample(I(60),  I(6),  210, 100, 0, 5),
                  Sample(I(120), I(11), 310, 100, 1, 8) >>,
     Three |-> << Sample(I(0), I(0),      80,  20, 0, 1),
                  Sample(I(1), R(1, 10), 120, 100, 0, 2),
                  Sample(I(3), R(3, 10), 100,  60, 1, 2) >>,
     Half7 |-> << Sample(R(1, 2), R(1, 20), 60,  40, 0, 1),
                  Sample(I(2),    R(1, 4),  90, 100, 0, 2),
                  Sample(R(7, 2), R(2, 5), 150,  80, 0, 3),
                  Sample(R(7, 2), R(1, 2), 140,   0, 1, 3) >>,
     Short |-> << Sample(I(0),    I(0),     30, 10, 0, 1),
                  Sample(R(1, 2), R(1, 10), 40, 20, 0, 1) >>,
     OneHalf |-> << Sample(I(0),    I(0),    50, 30, 0, 1),
                    Sample(R(3, 2), R(1, 5), 70, 90, 0, 2) >>]

Lap(driver, number, laptime, tel) ==
    [Driver |-> driver, LapNumber |-> number, LapTime |-> laptime, tel |-> tel]

(* Lap records the provider may hold; LapTime in milliseconds, None = NaT. *)
LapCatalog ==
    { Lap("A", 1, Some(90000), "Five"),
      Lap("A", 2, None,        "Three"),
      Lap("A", 3, Some(80000), "Short"),
      Lap("B", 1, Some(91000), "Six"),
      Lap("B", 2, Some(85000), "Half7"),
      Lap("B", 3, Some(95000), "OneHalf") }

(* A session holding the two laps of the worked scenario: driver A sampled *)
(* at distances 0, 50, 100 and driver B at 0, 60, 120.                     *)
ScenarioLapA == Lap("A", 1, Some(90000), "ScenA")
ScenarioLapB == Lap("B", 1, Some(91000), "ScenB")
ScenarioCatalog ==
    { ScenarioLapA, ScenarioLapB,
      Lap("A", 2, Some(80000), "Three"),
      Lap("B", 2, Some(85000), "Half7") }

(* Largest lap number a caller passes to the constructor. *)
MaxLapNumber == 4

LapNumbers == {None} \cup {Some(n) : n \in 0..MaxLapNumber}

(* tel[column] as an array. *)
Column(tel, ch) == [i \in 1..Len(tel) |-> tel[i][ch]]

Telemetry(lap) == TelemetryCatalog[lap.tel]

(* fastf1.plotting.get_driver_color: the styling table knows some codes. *)
DriverColors == [A |-> "red"]

---------------------------------------------------------------------------
(* Dictionaries keyed by driver code. *)
EmptyDict == [c \in {} |-> None]
IsEmptyDict(d) == DOMAIN d = {}

(* {k1: v1, k2: v2}: the later key wins when both are the same code. *)
Dict2(k1, v1, k2, v2) == [c \in {k1, k2} |-> IF c = k2 THEN v2 ELSE v1]

---------------------------------------------------------------------------
(* process(), stage by stage. *)

NoResult == [err |-> "None", stats |-> None]
Raised(kind) == [err |-> kind, stats |-> None]
Returned(stats) == [err |-> "None", stats |-> Some(stats)]

(* session.laps.pick_drivers(code) *)
pick_drivers(code) == {l \in session : l.Driver = code}

(* `if self.lap_number:` -- the truth value of the attribute. *)
LapGiven(n) == IsSome(n) /\ Get(n) # 0

(* d_laps[d_laps['LapNumber'] == self.lap_number] *)
LapsNumbered(ls, n) == {l \in ls : l.LapNumber = Get(n)}

(* .iloc[0] of a non-empty selection (lap numbers are unique per driver). *)
First(ls) == CHOOSE l \in ls : TRUE

(* Laps.pick_fastest(): the timed lap of least LapTime; None without one. *)
pick_fastest(ls) ==
    LET timed == {l \in ls : IsSome(l.LapTime)}
    IN  IF timed = {} THEN None
        ELSE Some(CHOOSE l \in timed :
                    \A m \in timed : Get(l.LapTime) <= Get(m.LapTime))

get_color(code) ==
    IF code \in DOMAIN DriverColors THEN DriverColors[code] ELSE "gray"

(* max_dist = min(tel_a['Distance'].max(), tel_b['Distance'].max()) *)
MaxDist(tel_a, tel_b) ==
    Min(Max(Column(tel_a, "Distance")), Max(Column(tel_b, "Distance")))

(* common_dist = np.linspace(0, max_dist, num=int(max_dist)) *)
CommonDist(tel_a, tel_b) ==
    LET max_dist == MaxDist(tel_a, tel_b)
    IN  Linspace(max_dist, Trunc(max_dist))

(* Mutant of Aligned: each driver resampled over its own distance range. *)
AlignedOwnRange(tel, common_dist, color) ==
    LET xp == Column(tel, "Distance")
        own == Linspace(Max(xp), Len(common_dist))
    IN  [dist     |-> own,
         time     |-> Interp(own, xp, Column(tel, "Time")),
         speed    |-> Interp(own, xp, Column(tel, "Speed")),
         throttle |-> Interp(own, xp, Column(tel, "Throttle")),
         brake    |-> Interp(own, xp, Column(tel, "Brake")),
         gear     |-> Interp(own, xp, Column(tel, "nGear")),
         color    |-> color]

(* aligned_data[code]: every channel interpolated onto common_dist. *)
Aligned(tel, common_dist, color) ==
    LET xp == Column(tel, "Distance")
    IN  [dist     |-> common_dist,
         time     |-> Interp(common_dist, xp, Column(tel, "Time")),
         speed    |-> Interp(common_dist, xp, Column(tel, "Speed")),
         throttle |-> Interp(common_dist, xp, Column(tel, "Throttle")),
         brake    |-> Interp(common_dist, xp, Column(tel, "Brake")),
         gear     |-> Interp(common_dist, xp, Column(tel, "nGear")),
         color    |-> color]

(* Mutant of Delta: the operands exchanged. *)
DeltaSwapped(time_b, time_a) ==
    [i \in 1..Len(time_b) |-> RSub(time_a[i], time_b[i])]

(* aligned_data[self.d2_code]['time'] - aligned_data[self.d1_code]['time'] *)
Delta(time_b, time_a) == [i \in 1..Len(time_b) |-> RSub(time_b[i], time_a[i])]

(* (t1 - t2).total_seconds(): NaN when either LapTime is NaT. *)
DiffSeconds(t1, t2) ==
    IF IsNone(t1) \/ IsNone(t2) THEN None
    ELSE Some(R(Get(t1) - Get(t2), 1000))

(* _generate_statistics(): np.max raises on a zero-size array. *)
generate_statistics(tdata, lps) ==
    LET d1 == tdata[d1_code]
        d2 == tdata[d2_code]
        t1 == Get(lps[d1_code]).LapTime
        t2 == Get(lps[d2_code]).LapTime
        diff_seconds == DiffSeconds(t1, t2)
    IN  IF Len(d1.speed) = 0 \/ Len(d2.speed) = 0
        THEN Raised("ZeroSizeArray")
        ELSE Returned([top_speed_diff |-> RSub(Max(d1.speed), Max(d2.speed)),
                       avg_throttle_a |-> Mean(d1.throttle),
                       avg_throttle_b |-> Mean(d2.throttle),
                       lap_time_diff  |-> diff_seconds])

(* The instance after a call that raised before line 50. *)
Untouched(kind) ==
    [laps |-> laps, telemetry_data |-> telemetry_data,
     delta_data |-> delta_data, ret |-> Raised(kind), requested |-> <<>>]

(* The instance after `raise ValueError("Could not retrieve telemetry")`. *)
FetchFailed(newLaps, req) ==
    [laps |-> newLaps, telemetry_data |-> telemetry_data,
     delta_data |-> delta_data, ret |-> Raised("TelemetryUnavailable"),
     requested |-> req]

(* Lines 60-103: resample, store, subtract, summarise. *)
AlignAndSummarise(newLaps, tel_a, tel_b) ==
    LET common_dist == CommonDist(tel_a, tel_b)
        aligned_data == Dict2(d1_code, Aligned(tel_a, common_dist, get_color(d1_code)),
                              d2_code, Aligned(tel_b, common_dist, get_color(d2_code)))
    IN  [laps |-> newLaps,
         telemetry_data |-> aligned_data,
         delta_data |-> Some(Delta(aligned_data[d2_code].time,
                                   aligned_data[d1_code].time)),
         ret |-> generate_statistics(aligned_data, newLaps),
         requested |-> <<d1_code, d2_code>>]

(* Lines 50-58: self.laps is stored, then both get_car_data() calls run    *)
(* inside the try; `down` names the call the provider refuses, and a None  *)
(* lap has no get_car_data at all.                                         *)
FetchTelemetry(lap_a, lap_b, down) ==
    LET newLaps == Dict2(d1_code, lap_a, d2_code, lap_b)
    IN  IF IsNone(lap_a) THEN FetchFailed(newLaps, <<>>)
        ELSE IF down = "a" THEN FetchFailed(newLaps, <<d1_code>>)
        ELSE IF IsNone(lap_b) THEN FetchFailed(newLaps, <<d1_code>>)
        ELSE IF down = "b" THEN FetchFailed(newLaps, <<d1_code, d2_code>>)
        ELSE AlignAndSummarise(newLaps, Telemetry(Get(lap_a)), Telemetry(Get(lap_b)))

(* Mutant of DriverMissing: the check of the second driver forgotten. *)
DriverMissingFirstOnly(d1_laps, d2_laps) == d1_laps = {}

(* Lines 29-32: either driver without laps. *)
DriverMissing(d1_laps, d2_laps) == d1_laps = {} \/ d2_laps = {}

(* Lines 34-48. *)
SelectLaps(d1_laps, d2_laps, down) ==
    IF LapGiven(lap_number)
    THEN LET lap_a == LapsNumbered(d1_laps, lap_number)
             lap_b == LapsNumbered(d2_laps, lap_number)
         IN  IF lap_a = {} \/ lap_b = {}
             THEN Untouched("LapNotFound")
             ELSE FetchTelemetry(Some(First(lap_a)), Some(First(lap_b)), down)
    ELSE FetchTelemetry(pick_fastest(d1_laps), pick_fastest(d2_laps), down)

(* process(): the fields of the instance and the outcome of the call. *)
ProcessResult(down) ==
    LET d1_laps == pick_drivers(d1_code)
        d2_laps == pick_drivers(d2_code)
    IN  IF DriverMissing(d1_laps, d2_laps)
        THEN Untouched("DriverNotFound")
        ELSE SelectLaps(d1_laps, d2_laps, down)

Outages == {"none", "a", "b"}

---------------------------------------------------------------------------
Fresh ==
    /\ lap_number \in LapNumbers
    /\ telemetry_data = EmptyDict
    /\ delta_data = None
    /\ laps = EmptyDict
    /\ ret = NoResult
    /\ op = "init"
    /\ requested = <<>>
    /\ fill = None

Init == session \in SUBSET LapCatalog /\ Fresh

InitScenario == session \in SUBSET ScenarioCatalog /\ Fresh

(* TelemetryComparator(session, "A", "B", n): a fresh instance. *)
Construct(n) ==
    /\ lap_number' = n
    /\ telemetry_data' = EmptyDict
    /\ delta_data' = None
    /\ laps' = EmptyDict
    /\ ret' = NoResult
    /\ op' = "init"
    /\ requested' = <<>>
    /\ fill' = None
    /\ UNCHANGED session

Process(down) ==
    LET r == ProcessResult(down)
    IN  /\ laps' = r.laps
        /\ telemetry_data' = r.telemetry_data
        /\ delta_data' = r.delta_data
        /\ ret' = r.ret
        /\ requested' = r.requested
        /\ op' = "process"
        /\ UNCHANGED <<session, lap_number, fill>>

(* where=self.delta_data>0 (facecolor of A) and where=self.delta_data<0 (of B) *)
FillMasks(delta) ==
    [a_ahead |-> [i \in 1..Len(delta) |-> RLt(I(0), delta[i])],
     b_ahead |-> [i \in 1..Len(delta) |-> RLt(delta[i], I(0))]]

(* plot_comparison(): process() first when nothing is stored; an exception *)
(* of process() leaves the plot undrawn.                                   *)
PlotComparison(down) ==
    LET r == IF IsEmptyDict(telemetry_data)
             THEN ProcessResult(down)
             ELSE [laps |-> laps, telemetry_data |-> telemetry_data,
                   delta_data |-> delta_data, ret |-> NoResult,
                   requested |-> <<>>]
    IN  /\ laps' = r.laps
        /\ telemetry_data' = r.telemetry_data
        /\ delta_data' = r.delta_data
        /\ requested' = r.requested
        /\ op' = "plot"
        /\ IF r.ret.err # "None"
           THEN ret' = r.ret /\ fill' = fill
           ELSE ret' = NoResult /\ fill' = Some(FillMasks(Get(r.delta_data)))
        /\ UNCHANGED <<session, lap_number>>

Next ==
    \/ \E n \in LapNumbers : Construct(n)
    \/ \E down \in Outages : Process(down)
    \/ \E down \in Outages : PlotComparison(down)

Spec == Init /\ [][Next]_vars

SpecScenario == InitScenario /\ [][Next]_vars

---------------------------------------------------------------------------
(* Vocabulary of the properties. *)

Succeeded == op = "process" /\ ret.err = "None"

(* Both get_car_data() calls of the last process() returned. *)
Fetched ==
    /\ op = "process"
    /\ requested = <<d1_code, d2_code>>
    /\ ret.err # "TelemetryUnavailable"

LapA == Get(laps[d1_code])
LapB == Get(laps[d2_code])
OwnMaxA == Max(Column(Telemetry(LapA), "Distance"))
OwnMaxB == Max(Column(Telemetry(LapB), "Distance"))
SelectedMaxDist == IF RLt(OwnMaxB, OwnMaxA) THEN OwnMaxB ELSE OwnMaxA

Grid == telemetry_data[d1_code].dist
Channels == {"time", "speed", "throttle", "brake", "gear"}

(* |x - c| <= 1/200: x is c to two decimals. *)
About(x, c) ==
    LET d == RSub(x, c)
    IN  RLe(R(-1, 200), d) /\ RLe(d, R(1, 200))

---------------------------------------------------------------------------
(* C2 -- grid sharing: after a successful process() both drivers' aligned  *)
(* series carry the same distance grid, and every interpolated channel of  *)
(* both drivers and the delta have exactly the length of that grid.        *)
C2_GridShared ==
    Succeeded =>
        /\ telemetry_data[d1_code].dist = telemetry_data[d2_code].dist
        /\ \A c \in {d1_code, d2_code} : \A ch \in Channels :
               Len(telemetry_data[c][ch]) = Len(Grid)
        /\ IsSome(delta_data)
        /\ Len(Get(delta_data)) = Len(Grid)

(* A successful run on raw series of different sample counts and ranges. *)
C2_Witness ==
    /\ Succeeded
    /\ Len(Telemetry(LapA)) # Len(Telemetry(LapB))
    /\ OwnMaxA # OwnMaxB
    /\ Len(Grid) >= 2

(* C6 -- missing driver: when either driver code has no laps, process()    *)
(* raises the driver-not-found error whatever lap_number is; no lap is     *)
(* selected, no telemetry is requested and nothing is returned or stored.  *)
C6_MissingDriver ==
    (op = "process" /\ (pick_drivers(d1_code) = {} \/ pick_drivers(d2_code) = {})) =>
        /\ ret.err = "DriverNotFound"
        /\ IsNone(ret.stats)
        /\ requested = <<>>
        /\ IsEmptyDict(laps)
        /\ IsEmptyDict(telemetry_data)
        /\ IsNone(delta_data)

(* Driver B has no laps while A has the requested lap. *)
C6_Witness ==
    /\ op = "process"
    /\ pick_drivers(d2_code) = {}
    /\ IsSome(lap_number)
    /\ LapsNumbered(pick_drivers(d1_code), lap_number) # {}
    /\ ret.err = "DriverNotFound"

(* C9 -- delta sign convention: delta_data[i] is B's interpolated time     *)
(* minus A's at every grid index, positive exactly when B's time exceeds   *)
(* A's; the fill marks A ahead exactly where delta > 0 and B ahead exactly *)
(* where delta < 0.                                                        *)
C9_DeltaSign ==
    /\ Succeeded =>
         \A i \in 1..Len(Grid) :
            LET ta == telemetry_data[d1_code].time[i]
                tb == telemetry_data[d2_code].time[i]
                d  == Get(delta_data)[i]
            IN  /\ RAdd(ta, d) = tb
                /\ RLt(I(0), d) <=> RLt(ta, tb)
    /\ (op = "plot" /\ ret.err = "None") =>
         /\ IsSome(fill)
         /\ \A i \in 1..Len(Grid) :
              LET ta == telemetry_data[d1_code].time[i]
                  tb == telemetry_data[d2_code].time[i]
              IN  /\ Get(fill).a_ahead[i] <=> RLt(ta, tb)
                  /\ Get(fill).b_ahead[i] <=> RLt(tb, ta)

(* A drawn plot whose delta takes both signs and zero. *)
C9_Witness ==
    /\ op = "plot" /\ ret.err = "None" /\ IsSome(fill)
    /\ \E i \in 1..Len(Grid) : Get(fill).a_ahead[i]
    /\ \E i \in 1..Len(Grid) : Get(fill).b_ahead[i]
    /\ \E i \in 1..Len(Grid) : ~Get(fill).a_ahead[i] /\ ~Get(fill).b_ahead[i]

---------------------------------------------------------------------------
(* C1 -- failure atomicity: a process() that fails on an instance holding  *)
(* nothing leaves telemetry_data empty and delta_data unset and returns no *)
(* statistics, at whatever stage the failure is raised.                    *)
C1_FailureAtomicity ==
    [][ (op' = "process" /\ ret'.err # "None"
            /\ IsEmptyDict(telemetry_data) /\ IsNone(delta_data))
        => (IsEmptyDict(telemetry_data') /\ IsNone(delta_data')
            /\ IsNone(ret'.stats)) ]_vars

(* C3 -- endpoint bound: after a successful process() with                 *)
(* max_dist = min(max distance of A, max distance of B) >= 1, the grid has *)
(* floor(max_dist) points, starts at 0 and ends at max_dist, and no grid   *)
(* point exceeds either driver's own maximum distance.                     *)
C3_EndpointBound ==
    (Succeeded /\ RLe(I(1), SelectedMaxDist)) =>
        /\ Len(Grid) = Trunc(SelectedMaxDist)
        /\ Grid[1] = I(0)
        /\ Grid[Len(Grid)] = SelectedMaxDist
        /\ \A i \in 1..Len(Grid) : RLe(Grid[i], OwnMaxA) /\ RLe(Grid[i], OwnMaxB)

(* C4 -- short-lap rejection: when both series were fetched and            *)
(* min(max distance of A, max distance of B) < 1, process() fails with the *)
(* insufficient-data error of the resampling step and produces no aligned  *)
(* series and no delta.                                                    *)
C4_ShortLapRejected ==
    [][ (Fetched' /\ RLt(SelectedMaxDist', I(1)))
        => (ret'.err = "InsufficientData"
            /\ telemetry_data' = telemetry_data
            /\ delta_data' = delta_data) ]_vars

(* C5 -- lap selection: when both drivers have laps and a lap number n was *)
(* given, process() fails with lap-not-found exactly when a driver has no  *)
(* lap numbered n, and otherwise both selected laps are numbered n; with   *)
(* no lap number given each driver's own fastest lap is selected.          *)
C5_LapSelection ==
    (op = "process" /\ pick_drivers(d1_code) # {} /\ pick_drivers(d2_code) # {}) =>
        IF IsSome(lap_number)
        THEN IF \/ LapsNumbered(pick_drivers(d1_code), lap_number) = {}
                \/ LapsNumbered(pick_drivers(d2_code), lap_number) = {}
             THEN ret.err = "LapNotFound"
             ELSE /\ ret.err # "LapNotFound"
                  /\ LapA.LapNumber = Get(lap_number)
                  /\ LapB.LapNumber = Get(lap_number)
        ELSE /\ ret.err # "LapNotFound"
             /\ laps[d1_code] = pick_fastest(pick_drivers(d1_code))
             /\ laps[d2_code] = pick_fastest(pick_drivers(d2_code))

(* C7 -- missing lap time: a run that reaches the statistics with a        *)
(* selected lap lacking its LapTime fails with the missing-lap-time error, *)
(* no returned statistics carry an undefined lap_time_diff, and a defined  *)
(* one is LapTime(A) - LapTime(B) in seconds.                              *)
C7_MissingLapTime ==
    /\ (Fetched /\ (IsNone(LapA.LapTime) \/ IsNone(LapB.LapTime)))
          => ret.err = "MissingLapTime"
    /\ (op = "process" /\ IsSome(ret.stats)) =>
          /\ IsSome(Get(ret.stats).lap_time_diff)
          /\ Get(Get(ret.stats).lap_time_diff)
                = R(Get(LapA.LapTime) - Get(LapB.LapTime), 1000)

(* C8 -- stale results: a process() invoked on an instance that holds the  *)
(* results of an earlier successful run and that fails leaves neither the  *)
(* earlier aligned series nor the earlier delta exposed.                   *)
C8_StaleDiscarded ==
    [][ (op' = "process" /\ ret'.err # "None"
            /\ ~IsEmptyDict(telemetry_data) /\ Len(Grid) > 0)
        => (IsEmptyDict(telemetry_data') /\ IsNone(delta_data')) ]_vars

---------------------------------------------------------------------------
(* The worked scenario: A at distances 0, 50, 100 with times 0, 5, 10 and  *)
(* B at distances 0, 60, 120 with times 0, 6, 11.                          *)
ScenarioRun ==
    /\ Succeeded
    /\ laps[d1_code] = Some(ScenarioLapA)
    /\ laps[d2_code] = Some(ScenarioLapB)

ScenarioGrid ==
    /\ SelectedMaxDist = I(100)
    /\ Len(Grid) = 100
    /\ Grid[1] = I(0)
    /\ Grid[100] = I(100)
    /\ telemetry_data[d1_code].time[100] = I(10)

(* C10 as stated -- in the scenario max_dist is 100, the grid has 100      *)
(* points from 0 to 100, and at grid point 100 A's time is 10, B's time is *)
(* about 9.17 and the delta about -0.83.                                   *)
C10_ScenarioAsStated ==
    ScenarioRun =>
        /\ ScenarioGrid
        /\ About(telemetry_data[d2_code].time[100], R(917, 100))
        /\ About(Get(delta_data)[100], R(-83, 100))

(* C10 amended -- in the scenario max_dist is 100, the grid has 100 points *)
(* from 0 to 100, and at grid point 100 A's time is 10, B's time is about  *)
(* 9.33 (6 + 5 * 40/60) and the delta about -0.67, B ahead.                *)
C10_Scenario ==
    ScenarioRun =>
        /\ ScenarioGrid
        /\ About(telemetry_data[d2_code].time[100], R(933, 100))
        /\ About(Get(delta_data)[100], R(-67, 100))
        /\ RLt(Get(delta_data)[100], I(0))

C10_Witness == ScenarioRun /\ Len(Get(delta_data)) = 100

===========================================================================
